---------------------------- MODULE Spec2Model ----------------------------
(***************************************************************************)
(* Model of the etcd coordination client of nextcloud-spreed-signaling     *)
(* (src/etcd_client.go): construction and reload of the client handle,     *)
(* listener registration and notification, the WaitForConnection backoff   *)
(* loop and the Watch relay loop.                                          *)
(*                                                                         *)
(* Strings are sequences of one-character strings, so that splitting and   *)
(* trimming are computed and not assumed.  Client handles are numbered     *)
(* 1, 2, ... in creation order; 0 stands for a nil handle.                 *)
(***************************************************************************)
EXTENDS Integers, Sequences, FiniteSets, TLC

(* ------------------------------ bounds -------------------------------- *)
MaxVersions == 3
MaxListLen == 5
MaxStrLen == 2
MaxLoads == 1
MaxAdds == 2
MaxCloses == 1
MaxFailures == 5
MaxInitialDelay == 2
MaxDelay == 8
MaxResponses == 2
MaxEvents == 2

(* ----------------------------- constants ------------------------------ *)
Nil == 0
Free == "free"
Threads == {"t1", "t2"}
\* The thread that owns the configuration: it constructs the client and
\* reloads it when the configuration changes.
Loader == "t1"
Listeners == {"l1", "l2"}
Chars == {"a", " ", ","}

VARIABLES
  ctor,           \* NewEtcdClient: "running", "ok" or "failed"
  compatSection,  \* EtcdClient.compatSection, a string
  slot,           \* EtcdClient.client, the atomic slot: a handle or Nil
  clients,        \* every clientv3.Client created so far, by handle
  mu,             \* EtcdClient.mu: Free or the thread/goroutine holding it
  listeners,      \* EtcdClient.listeners
  th,             \* per thread: position and locals of the running call
  gor,            \* goroutines started by AddListener, per listener and stage
  everNotified,   \* the listeners whose EtcdClientCreated was ever called
  ops,            \* how many calls of each bounded kind were started
  config,         \* the configuration file load reads, when it is a given one
  initialWaitDelay, \* the package constant of that name, in seconds
  maxWaitDelay,   \* the package constant of that name, in seconds
  wfc,            \* WaitForConnection: position, waitDelay, delays slept
  shutdown,       \* whether the owning process has signalled its shutdown
  watch,          \* Watch: position, watcher calls made, result
  stream,         \* the watch stream: responses sent, whether it has ended
  attached,       \* reloadableCredentials: whether loader / pool is not nil
  disk,           \* per loader, the artifact on disk: its version, whether it parses
  ld,             \* per loader: position, active material, reload generation
  wt,             \* per waiter: the WaitFor...Reload call it is in
  hs              \* a TLS handshake: the credential snapshot it has taken

clientVars == <<ctor, compatSection, slot, clients, mu, listeners, th, gor,
                everNotified, ops, config>>

credVars == <<attached, disk, ld, wt, hs>>

loopVars == <<initialWaitDelay, maxWaitDelay, wfc, shutdown, watch, stream, credVars>>

vars == <<clientVars, loopVars>>

(* ------------------------------ strings ------------------------------- *)
RECURSIVE StringsOver(_, _)
\* Every string of at most n characters drawn from chars.
StringsOver(chars, n) ==
  IF n = 0 THEN {<<>>}
  ELSE LET shorter == StringsOver(chars, n - 1)
       IN shorter \cup {Append(s, ch) : s \in {x \in shorter : Len(x) = n - 1}, ch \in chars}

RECURSIVE Split(_)
\* strings.Split(s, ","): the pieces between commas, empty pieces kept.
Split(s) ==
  IF s = <<>> THEN << <<>> >>
  ELSE LET rest == Split(Tail(s))
       IN IF Head(s) = "," THEN << <<>> >> \o rest
          ELSE << <<Head(s)>> \o Head(rest) >> \o Tail(rest)

RECURSIVE TrimLeft(_)
TrimLeft(s) == IF s # <<>> /\ Head(s) = " " THEN TrimLeft(Tail(s)) ELSE s

RECURSIVE TrimRight(_)
TrimRight(s) ==
  IF s # <<>> /\ s[Len(s)] = " " THEN TrimRight(SubSeq(s, 1, Len(s) - 1)) ELSE s

\* strings.TrimSpace
TrimSpace(s) == TrimRight(TrimLeft(s))

RECURSIVE NonEmptyTrimmed(_)
\* The loop of load over the pieces: trim each, keep the non-empty ones.
NonEmptyTrimmed(pieces) ==
  IF pieces = <<>> THEN <<>>
  ELSE LET ep == TrimSpace(Head(pieces))
       IN (IF ep # <<>> THEN <<ep>> ELSE <<>>) \o NonEmptyTrimmed(Tail(pieces))

(* --------------------------- configuration ---------------------------- *)
\* One option as the configuration file holds it: its value in section
\* "etcd" and its value in the compatibility section.
OptionInputs(values) ==
  {[etcd |-> v, compat |-> <<>>] : v \in values}
    \cup {[etcd |-> <<>>, compat |-> v] : v \in values}

getConfigStringWithFallback(option) ==
  IF option.etcd = <<>> /\ compatSection # <<>> THEN option.compat ELSE option.etcd

FileNames == {<<>>, <<"f">>}
ListChars == {"a", "b", " ", ","}
SrvNames == {<<>>, <<"d">>}
SrvEndpoints == << <<"s">> >>

\* The options of the configuration file that decide the endpoints, and
\* whether the SRV lookup for its discovery domain succeeds.
Configs(endpointsValues) ==
  [given : {TRUE}, endpoints : OptionInputs(endpointsValues),
   discoverysrv : OptionInputs(SrvNames), srvOk : BOOLEAN]

\* No configuration file is singled out: each load reads any one.
AnyConfig ==
  [given |-> FALSE, endpoints |-> [etcd |-> <<>>, compat |-> <<>>],
   discoverysrv |-> [etcd |-> <<>>, compat |-> <<>>], srvOk |-> FALSE]

\* The configuration files a call of load can be given.
ConfigsRead ==
  IF config.given THEN {config} ELSE Configs(StringsOver(Chars, MaxStrLen))

(* ------------------------------ threads ------------------------------- *)
NoneNotified == [l \in Listeners |-> 0]

IdleThread ==
  [pc |-> "idle", op |-> "none", ignoreErrors |-> FALSE, endpoints |-> <<>>,
   client |-> Nil, prev |-> Nil, todo |-> {}, listener |-> "none",
   failure |-> {}, closed |-> FALSE, stored |-> FALSE, err |-> "none",
   snapshot |-> {}, notified |-> NoneNotified, files |-> {}, tlsConfig |-> "none"]

NoGoroutines == [l \in Listeners |-> [spawned |-> 0, waiting |-> 0]]

\* NewEtcdClient has created the object and is about to call load.
Running ==
  /\ ctor = "running"
  /\ compatSection \in {<<>>, <<"m">>}
  /\ slot = Nil
  /\ clients = <<>>
  /\ mu = Free
  /\ listeners = {}
  /\ th = [t \in Threads |->
             IF t = Loader
               THEN [IdleThread EXCEPT !.pc = "load_endpoints", !.op = "load"]
               ELSE IdleThread]
  /\ gor = NoGoroutines
  /\ everNotified = {}
  /\ ops = [loads |-> 0, adds |-> 0, closes |-> 0]

InitClient ==
  /\ Running
  /\ config = AnyConfig

getEtcdClient == slot

IsConfigured == getEtcdClient # Nil

\* The thread leaves load with error e ("nil" for no error).
Returned(t, e, fail) ==
  [th EXCEPT ![t] = [@ EXCEPT !.pc = "returned", !.err = e, !.failure = @ \cup fail]]

\* NewEtcdClient, lines 61-65: the first load decides whether the object
\* exists; a later load leaves that as it is.
NewEtcdClient(e) ==
  IF ctor = "running" THEN (IF e = "nil" THEN "ok" ELSE "failed") ELSE ctor

\* Mutants of propagated: the error returned whatever ignoreErrors says, and
\* the error dropped whatever ignoreErrors says.
propagated_always(ignoreErrors, err) == err

propagated_never(ignoreErrors, err) == "nil"

\* load, lines 93-95, 126-128 and 138-140: "if !ignoreErrors { return err }".
\* The error load returns for a failure err; "nil" when it goes on instead.
propagated(ignoreErrors, err) == IF ~ignoreErrors THEN err ELSE "nil"

\* The call has returned to its caller; the thread's locals are gone.
return(t) ==
  /\ th[t].pc = "returned"
  /\ ctor # "failed"
  /\ th' = [th EXCEPT ![t] = IdleThread]
  /\ UNCHANGED <<loopVars, config, ctor, compatSection, slot, clients, mu, listeners, gor, everNotified, ops>>

\* A runtime reload: load(config, true) on the constructed object.
load_call(t) ==
  /\ ctor = "ok"
  /\ th[t].pc = "idle"
  /\ ops.loads < MaxLoads
  /\ ops' = [ops EXCEPT !.loads = @ + 1]
  /\ th' = [th EXCEPT ![t] = [IdleThread EXCEPT !.pc = "load_endpoints", !.op = "load",
                                                 !.ignoreErrors = TRUE]]
  /\ UNCHANGED <<loopVars, config, ctor, compatSection, slot, clients, mu, listeners, gor, everNotified>>

\* Mutant of resolve: a discovery domain, when configured, goes before the list.
resolve_srvFirst(endpointsString, discoverySrv, srvOk) ==
  IF discoverySrv # <<>> THEN (IF srvOk THEN SrvEndpoints ELSE <<>>)
  ELSE IF endpointsString # <<>> THEN NonEmptyTrimmed(Split(endpointsString))
  ELSE <<>>

\* Mutant of resolve: the endpoints of the lookup are used although it failed.
resolve_despiteError(endpointsString, discoverySrv, srvOk) ==
  IF endpointsString # <<>> THEN NonEmptyTrimmed(Split(endpointsString))
  ELSE IF discoverySrv # <<>> THEN SrvEndpoints
  ELSE <<>>

\* load, lines 81-99: the endpoints, from the option or from the SRV lookup.
resolve(endpointsString, discoverySrv, srvOk) ==
  IF endpointsString # <<>> THEN NonEmptyTrimmed(Split(endpointsString))
  ELSE IF discoverySrv # <<>> /\ srvOk THEN SrvEndpoints
  ELSE <<>>

\* load, lines 81-107: resolve the endpoints, leave when there are none.
load_endpoints(t) ==
  /\ th[t].pc = "load_endpoints"
  /\ \E c \in ConfigsRead :
       LET endpointsString == getConfigStringWithFallback(c.endpoints)
           discoverySrv == getConfigStringWithFallback(c.discoverysrv)
           srvOk == c.srvOk
           lookup == endpointsString = <<>> /\ discoverySrv # <<>>
           endpoints == resolve(endpointsString, discoverySrv, srvOk)
           fail == IF lookup /\ ~srvOk THEN {"discovery"} ELSE {}
           e == IF fail # {} THEN propagated(th[t].ignoreErrors, "discovery") ELSE "nil"
       IN IF e # "nil" \/ Len(endpoints) = 0
            THEN /\ th' = Returned(t, e, fail)
                 /\ ctor' = NewEtcdClient(e)
            ELSE /\ th' = [th EXCEPT ![t] = [@ EXCEPT !.pc = "load_new",
                                                       !.failure = @ \cup fail,
                                                       !.endpoints = endpoints]]
                 /\ ctor' = ctor
  /\ UNCHANGED <<loopVars, config, compatSection, slot, clients, mu, listeners, gor, everNotified, ops>>

\* Mutant of tlsWanted: one of the three files is enough.
tlsWanted_any(clientKey, clientCert, caCert) ==
  clientKey # <<>> \/ clientCert # <<>> \/ caCert # <<>>

\* load, line 118: a TLS configuration is built when all three files are named.
tlsWanted(clientKey, clientCert, caCert) ==
  clientKey # <<>> /\ clientCert # <<>> /\ caCert # <<>>

\* The options among clientkey, clientcert and cacert that name a file.
filesNamed(clientKey, clientCert, caCert) ==
  (IF clientKey # <<>> THEN {"clientkey"} ELSE {})
    \cup (IF clientCert # <<>> THEN {"clientcert"} ELSE {})
    \cup (IF caCert # <<>> THEN {"cacert"} ELSE {})

\* load, lines 108-143: the TLS configuration, then clientv3.New(cfg).
load_new(t) ==
  /\ th[t].pc = "load_new"
  /\ \E keyOpt \in OptionInputs(FileNames),
        certOpt \in OptionInputs(FileNames),
        caOpt \in OptionInputs(FileNames),
        tlsOk \in BOOLEAN,
        newOk \in BOOLEAN :
       LET clientKey == getConfigStringWithFallback(keyOpt)
           clientCert == getConfigStringWithFallback(certOpt)
           caCert == getConfigStringWithFallback(caOpt)
           wanted == tlsWanted(clientKey, clientCert, caCert)
           files == filesNamed(clientKey, clientCert, caCert)
           tlsConfig == IF ~wanted THEN "none" ELSE IF tlsOk THEN "ok" ELSE "failed"
           tlsFail == IF wanted /\ ~tlsOk THEN {"tls"} ELSE {}
           e == IF tlsFail # {} /\ propagated(th[t].ignoreErrors, "tls") # "nil"
                  THEN "tls"
                ELSE IF ~newOk THEN propagated(th[t].ignoreErrors, "new")
                ELSE "nil"
           \* with the TLS error returned, clientv3.New is not reached
           fail == IF e = "tls" THEN tlsFail
                   ELSE tlsFail \cup (IF newOk THEN {} ELSE {"new"})
       IN IF e # "nil" \/ ~newOk
            THEN /\ th' = [Returned(t, e, fail) EXCEPT ![t].files = files,
                                                        ![t].tlsConfig = tlsConfig]
                 /\ ctor' = NewEtcdClient(e)
                 /\ clients' = clients
            ELSE /\ clients' = Append(clients, [tls |-> wanted /\ tlsOk,
                                                closedByLoad |-> 0, closedByClose |-> 0])
                 /\ th' = [th EXCEPT ![t] = [@ EXCEPT !.pc = "load_prev",
                                                       !.failure = @ \cup fail,
                                                       !.files = files,
                                                       !.tlsConfig = tlsConfig,
                                                       !.client = Len(clients) + 1]]
                 /\ ctor' = ctor
  /\ UNCHANGED <<loopVars, config, compatSection, slot, mu, listeners, gor, everNotified, ops>>

\* load, line 144: prev := c.getEtcdClient()
load_prev(t) ==
  /\ th[t].pc = "load_prev"
  /\ th' = [th EXCEPT ![t] = [@ EXCEPT !.pc = "load_close", !.prev = getEtcdClient]]
  /\ UNCHANGED <<loopVars, config, ctor, compatSection, slot, clients, mu, listeners, gor, everNotified, ops>>

\* Mutant of load_close: the slot is emptied when the previous handle is closed.
load_close_clearing(t) ==
  /\ th[t].pc = "load_close"
  /\ LET prev == th[t].prev
     IN /\ clients' = IF prev # Nil
                        THEN [clients EXCEPT ![prev].closedByLoad = @ + 1]
                        ELSE clients
        /\ th' = [th EXCEPT ![t] = [@ EXCEPT !.pc = "load_store",
                                              !.closed = prev # Nil]]
  /\ slot' = Nil
  /\ UNCHANGED <<loopVars, config, ctor, compatSection, mu, listeners, gor, everNotified, ops>>

\* load, lines 145-147: if prev != nil { prev.Close() }
load_close(t) ==
  /\ th[t].pc = "load_close"
  /\ LET prev == th[t].prev
     IN /\ clients' = IF prev # Nil
                        THEN [clients EXCEPT ![prev].closedByLoad = @ + 1]
                        ELSE clients
        /\ th' = [th EXCEPT ![t] = [@ EXCEPT !.pc = "load_store",
                                              !.closed = prev # Nil]]
  /\ UNCHANGED <<loopVars, config, ctor, compatSection, slot, mu, listeners, gor, everNotified, ops>>

\* load, line 148: c.client.Store(client)
load_store(t) ==
  /\ th[t].pc = "load_store"
  /\ slot' = th[t].client
  /\ th' = [th EXCEPT ![t] = [@ EXCEPT !.pc = "notify_lock", !.stored = TRUE]]
  /\ UNCHANGED <<loopVars, config, ctor, compatSection, clients, mu, listeners, gor, everNotified, ops>>

\* notifyListeners, line 187: c.mu.Lock(), then the range over the map starts.
notifyListeners_lock(t) ==
  /\ th[t].pc = "notify_lock"
  /\ mu = Free
  /\ mu' = t
  /\ th' = [th EXCEPT ![t] = [@ EXCEPT !.pc = "notify", !.todo = listeners,
                                        !.snapshot = listeners]]
  /\ UNCHANGED <<loopVars, config, ctor, compatSection, slot, clients, listeners, gor, everNotified, ops>>

\* notifyListeners, lines 190-191: the next listener of the range is called,
\* on this thread and with the lock held.
notifyListeners_call(t) ==
  /\ th[t].pc = "notify"
  /\ \E l \in th[t].todo :
       /\ th' = [th EXCEPT ![t] = [@ EXCEPT !.pc = "callback", !.listener = l,
                                             !.todo = @ \ {l},
                                             !.notified = [@ EXCEPT ![l] = @ + 1]]]
       /\ everNotified' = everNotified \cup {l}
  /\ UNCHANGED <<loopVars, config, ctor, compatSection, slot, clients, mu, listeners, gor, ops>>

\* The listener's EtcdClientCreated returns to notifyListeners.
EtcdClientCreated_return(t) ==
  /\ th[t].pc = "callback"
  /\ th' = [th EXCEPT ![t] = [@ EXCEPT !.pc = "notify", !.listener = "none"]]
  /\ UNCHANGED <<loopVars, config, ctor, compatSection, slot, clients, mu, listeners, gor, everNotified, ops>>

\* The listener's EtcdClientCreated calls c.RemoveListener(itself): the call
\* reaches c.mu.Lock() (line 209) on the thread that holds c.mu since line
\* 187, and sync.Mutex is not reentrant.
EtcdClientCreated_reenter(t) ==
  /\ th[t].pc = "callback"
  /\ th' = [th EXCEPT ![t] = [@ EXCEPT !.pc = "callback_lock"]]
  /\ UNCHANGED <<loopVars, config, ctor, compatSection, slot, clients, mu, listeners, gor, everNotified, ops>>

\* notifyListeners, lines 188 and 193: the range is over, the deferred Unlock
\* runs, and the caller returns (load line 154 with a nil error, AddListener).
notifyListeners_unlock(t) ==
  /\ th[t].pc = "notify"
  /\ th[t].todo = {}
  /\ mu' = Free
  /\ th' = Returned(t, "nil", {})
  /\ ctor' = NewEtcdClient("nil")
  /\ UNCHANGED <<loopVars, config, compatSection, slot, clients, listeners, gor, everNotified, ops>>

\* Mutant of AddListener: the goroutine is started without looking at the
\* current client.
AddListener_unchecked(l) ==
  /\ ctor = "ok"
  /\ ops.adds < MaxAdds
  /\ mu = Free
  /\ ops' = [ops EXCEPT !.adds = @ + 1]
  /\ listeners' = listeners \cup {l}
  /\ gor' = [gor EXCEPT ![l].spawned = @ + 1]
  /\ UNCHANGED <<loopVars, config, ctor, compatSection, slot, clients, mu, th, everNotified>>

\* AddListener, lines 196-205, called on a thread of its own and run once
\* the lock is free: register the listener and, with a client installed,
\* start a goroutine that notifies it.  The call then returns.
AddListener(l) ==
  /\ ctor = "ok"
  /\ ops.adds < MaxAdds
  /\ mu = Free
  /\ ops' = [ops EXCEPT !.adds = @ + 1]
  /\ listeners' = listeners \cup {l}
  /\ gor' = IF getEtcdClient # Nil THEN [gor EXCEPT ![l].spawned = @ + 1] ELSE gor
  /\ UNCHANGED <<loopVars, config, ctor, compatSection, slot, clients, mu, th, everNotified>>

\* RemoveListener, lines 209-212, called on a thread of its own and run once
\* the lock is free.
RemoveListener(l) ==
  /\ ctor = "ok"
  /\ mu = Free
  /\ listeners' = listeners \ {l}
  /\ UNCHANGED <<loopVars, config, ctor, compatSection, slot, clients, mu, th, gor, everNotified, ops>>

\* Close, line 158: client := c.getEtcdClient()
Close_get(t) ==
  /\ ctor = "ok"
  /\ th[t].pc = "idle"
  /\ ops.closes < MaxCloses
  /\ ops' = [ops EXCEPT !.closes = @ + 1]
  /\ th' = [th EXCEPT ![t] = [IdleThread EXCEPT !.pc = "close_close", !.op = "close",
                                                 !.prev = getEtcdClient]]
  /\ UNCHANGED <<loopVars, config, ctor, compatSection, slot, clients, mu, listeners, gor, everNotified>>

\* Close, lines 159-163: the handle read is closed; the slot keeps it.
Close_close(t) ==
  /\ th[t].pc = "close_close"
  /\ LET client == th[t].prev
     IN clients' = IF client # Nil
                     THEN [clients EXCEPT ![client].closedByClose = @ + 1]
                     ELSE clients
  /\ th' = [th EXCEPT ![t] = [@ EXCEPT !.pc = "returned"]]
  /\ UNCHANGED <<loopVars, config, ctor, compatSection, slot, mu, listeners, gor, everNotified, ops>>

\* The goroutine of AddListener line 204 is scheduled and calls the
\* listener, whose EtcdClientCreated returns.
go_EtcdClientCreated(l) ==
  /\ gor[l].spawned > 0
  /\ gor' = [gor EXCEPT ![l].spawned = @ - 1]
  /\ everNotified' = everNotified \cup {l}
  /\ UNCHANGED <<loopVars, config, ctor, compatSection, slot, clients, mu, listeners, th, ops>>

\* The same, with a listener whose EtcdClientCreated calls
\* c.RemoveListener(itself): the goroutine reaches c.mu.Lock(), line 209.
go_reenter(l) ==
  /\ gor[l].spawned > 0
  /\ gor' = [gor EXCEPT ![l].spawned = @ - 1, ![l].waiting = @ + 1]
  /\ everNotified' = everNotified \cup {l}
  /\ UNCHANGED <<loopVars, config, ctor, compatSection, slot, clients, mu, listeners, th, ops>>

\* RemoveListener, lines 209-212, on the goroutine, once the lock is free.
go_RemoveListener(l) ==
  /\ gor[l].waiting > 0
  /\ mu = Free
  /\ listeners' = listeners \ {l}
  /\ gor' = [gor EXCEPT ![l].waiting = @ - 1]
  /\ UNCHANGED <<loopVars, config, ctor, compatSection, slot, clients, mu, th, everNotified, ops>>

(* ------------------------ WaitForConnection --------------------------- *)
\* The two delays of the backoff are constants declared in another file of
\* the package: any initial delay that does not exceed the maximum.
WaitDelays ==
  {d \in (1..MaxInitialDelay) \X (1..MaxDelay) : d[1] <= d[2]}

IdleWait == [pc |-> "idle", waitDelay |-> 0, slept |-> <<>>, attempts |-> 0,
             sinceShutdown |-> 0]

\* WaitForConnection, line 216.
WaitForConnection_call ==
  /\ wfc.pc = "idle"
  /\ wfc' = [wfc EXCEPT !.pc = "sync", !.waitDelay = initialWaitDelay]
  /\ UNCHANGED <<clientVars, credVars, initialWaitDelay, maxWaitDelay, shutdown, watch, stream>>

\* syncClient, lines 179-184, on a missing handle: Sync is called through a
\* nil *clientv3.Client.
syncClient_nil ==
  /\ wfc.pc = "sync"
  /\ getEtcdClient = Nil
  /\ wfc' = [wfc EXCEPT !.pc = "panic"]
  /\ UNCHANGED <<clientVars, credVars, initialWaitDelay, maxWaitDelay, shutdown, watch, stream>>

\* How many calls of syncClient began after the shutdown was signalled (the
\* count stops at 2: only "more than one" is of interest).
SinceShutdown == IF shutdown /\ wfc.sinceShutdown < 2 THEN wfc.sinceShutdown + 1
                 ELSE wfc.sinceShutdown

\* WaitForConnection, lines 218 and 233-234: syncClient succeeds, the call returns.
WaitForConnection_synced ==
  /\ wfc.pc = "sync"
  /\ getEtcdClient # Nil
  /\ wfc' = [wfc EXCEPT !.pc = "done", !.attempts = @ + 1,
                        !.sinceShutdown = SinceShutdown]
  /\ UNCHANGED <<clientVars, credVars, initialWaitDelay, maxWaitDelay, shutdown, watch, stream>>

\* WaitForConnection, lines 218-223: syncClient fails, with a timeout or
\* with another error.
WaitForConnection_failed ==
  /\ wfc.pc = "sync"
  /\ getEtcdClient # Nil
  /\ Len(wfc.slept) < MaxFailures
  /\ wfc' = [wfc EXCEPT !.pc = "sleep", !.attempts = @ + 1,
                        !.sinceShutdown = SinceShutdown]
  /\ UNCHANGED <<clientVars, credVars, initialWaitDelay, maxWaitDelay, shutdown, watch, stream>>

\* Mutant of nextWaitDelay: the doubling without the ceiling.
nextWaitDelay_uncapped(waitDelay) == waitDelay * 2

\* WaitForConnection, lines 226-229: the delay after the one just slept.
nextWaitDelay(waitDelay) ==
  IF waitDelay * 2 > maxWaitDelay THEN maxWaitDelay ELSE waitDelay * 2

\* WaitForConnection, lines 225-230: sleep, lengthen the delay, try again.
WaitForConnection_sleep ==
  /\ wfc.pc = "sleep"
  /\ wfc' = [wfc EXCEPT !.pc = "sync", !.slept = Append(@, wfc.waitDelay),
                        !.waitDelay = nextWaitDelay(@)]
  /\ UNCHANGED <<clientVars, credVars, initialWaitDelay, maxWaitDelay, shutdown, watch, stream>>

\* The owning process signals its shutdown.  WaitForConnection (line 215)
\* takes no context and reads no such signal.
Shutdown ==
  /\ ~shutdown
  /\ shutdown' = TRUE
  /\ UNCHANGED <<clientVars, credVars, initialWaitDelay, maxWaitDelay, wfc, watch, stream>>

(* ------------------------------- Watch -------------------------------- *)
Keys == {"k1", "k2"}
Values == {"v1"}
EventTypes == {"PUT", "DELETE", "OTHER"}
Events == [type : EventTypes, key : Keys, value : Values]
Errors == {"nil", "compacted"}
WatchKey == "k"

RECURSIVE SeqsUpTo(_, _)
\* Every sequence of at most n elements of S.
SeqsUpTo(S, n) ==
  IF n = 0 THEN {<<>>}
  ELSE LET shorter == SeqsUpTo(S, n - 1)
       IN shorter \cup {Append(s, x) : s \in {y \in shorter : Len(y) = n - 1}, x \in S}

\* What the stream can deliver: a response carries an error or not, and events.
Responses == [err : Errors, events : SeqsUpTo(Events, MaxEvents)]

IdleWatch == [pc |-> "idle", received |-> 0, idx |-> 0, calls |-> <<>>,
              result |-> "none", opens |-> 0, handle |-> Nil]

\* The responses sent and not yet read from the channel.
channel == SubSeq(stream.sent, watch.received + 1, Len(stream.sent))

\* The server sends a response on the stream, read or not.
etcd_send ==
  /\ watch.opens > 0
  /\ ~stream.closed
  /\ Len(stream.sent) < MaxResponses
  /\ \E response \in Responses :
       stream' = [stream EXCEPT !.sent = Append(@, response)]
  /\ UNCHANGED <<clientVars, credVars, initialWaitDelay, maxWaitDelay, wfc, shutdown, watch>>

\* The stream ends (its context is cancelled, the client is closed): the
\* channel is closed behind the responses already sent.
etcd_close ==
  /\ watch.opens > 0
  /\ ~stream.closed
  /\ stream' = [stream EXCEPT !.closed = TRUE]
  /\ UNCHANGED <<clientVars, credVars, initialWaitDelay, maxWaitDelay, wfc, shutdown, watch>>

\* Watch, line 244, on a missing handle: Watch is called through a nil
\* *clientv3.Client.
Watch_nil ==
  /\ watch.pc = "idle"
  /\ getEtcdClient = Nil
  /\ watch' = [watch EXCEPT !.pc = "panic"]
  /\ UNCHANGED <<clientVars, credVars, initialWaitDelay, maxWaitDelay, wfc, shutdown, stream>>

\* Watch, line 244: the stream is opened on the current handle.
Watch_open ==
  /\ watch.pc = "idle"
  /\ getEtcdClient # Nil
  /\ watch' = [watch EXCEPT !.pc = "opened", !.opens = @ + 1,
                            !.handle = getEtcdClient]
  /\ UNCHANGED <<clientVars, credVars, initialWaitDelay, maxWaitDelay, wfc, shutdown, stream>>

\* Mutant of Watch_created: the watcher is not told that the stream is open.
Watch_created_skipped ==
  /\ watch.pc = "opened"
  /\ watch' = [watch EXCEPT !.pc = "range"]
  /\ UNCHANGED <<clientVars, credVars, initialWaitDelay, maxWaitDelay, wfc, shutdown, stream>>

\* Watch, line 246: watcher.EtcdWatchCreated(c, key)
Watch_created ==
  /\ watch.pc = "opened"
  /\ watch' = [watch EXCEPT !.pc = "range",
                            !.calls = Append(@, <<"EtcdWatchCreated", WatchKey>>)]
  /\ UNCHANGED <<clientVars, credVars, initialWaitDelay, maxWaitDelay, wfc, shutdown, stream>>

\* Mutant of Err: the error of a response is not looked at.
Err_ignored(response) == "nil"

\* response.Err(), line 248
Err(response) == response.err

\* Watch, lines 247-250: the next response is read; one with an error ends Watch.
Watch_response ==
  /\ watch.pc = "range"
  /\ channel # <<>>
  /\ LET response == Head(channel)
     IN watch' = IF Err(response) # "nil"
                   THEN [watch EXCEPT !.pc = "done", !.received = @ + 1,
                                      !.result = Err(response)]
                   ELSE [watch EXCEPT !.pc = "events", !.received = @ + 1, !.idx = 1]
  /\ UNCHANGED <<clientVars, credVars, initialWaitDelay, maxWaitDelay, wfc, shutdown, stream>>

\* Mutant of dispatch: an event of another type is handed on as a deletion.
dispatch_unknownAsDelete(ev) ==
  IF ev.type = "PUT" THEN << <<"EtcdKeyUpdated", ev.key, ev.value>> >>
  ELSE << <<"EtcdKeyDeleted", ev.key>> >>

\* Mutant of dispatch: a Delete is handed on as an update.
dispatch_deleteAsUpdate(ev) ==
  IF ev.type \in {"PUT", "DELETE"} THEN << <<"EtcdKeyUpdated", ev.key, ev.value>> >>
  ELSE <<>>

\* Watch, lines 253-260: the watcher calls made for one event.
dispatch(ev) ==
  IF ev.type = "PUT" THEN << <<"EtcdKeyUpdated", ev.key, ev.value>> >>
  ELSE IF ev.type = "DELETE" THEN << <<"EtcdKeyDeleted", ev.key>> >>
  ELSE <<>>

\* Watch, lines 252-261: the next event of the response is dispatched.
Watch_event ==
  /\ watch.pc = "events"
  /\ LET events == stream.sent[watch.received].events
     IN watch' = IF watch.idx > Len(events)
                   THEN [watch EXCEPT !.pc = "range", !.idx = 0]
                   ELSE [watch EXCEPT !.idx = @ + 1,
                                      !.calls = @ \o dispatch(events[watch.idx])]
  /\ UNCHANGED <<clientVars, credVars, initialWaitDelay, maxWaitDelay, wfc, shutdown, stream>>

\* Watch, lines 247 and 264: the channel is closed and drained, Watch returns nil.
Watch_closed ==
  /\ watch.pc = "range"
  /\ channel = <<>>
  /\ stream.closed
  /\ watch' = [watch EXCEPT !.pc = "done", !.result = "nil"]
  /\ UNCHANGED <<clientVars, credVars, initialWaitDelay, maxWaitDelay, wfc, shutdown, stream>>

(* ---------------------------- credentials ---------------------------- *)
\* reloadableCredentials (src/grpc_common_test.go) has a certificate loader
\* and a pool loader, each of them optional.  The loaders themselves are in
\* another file of the package: each owns one artifact on disk, reloads it
\* when it changes and counts its successful reloads.
Loaders == {"cert", "pool"}
Waiters == {"w1", "w2"}
Calls == {"WaitForCertificateReload", "WaitForCertPoolReload"}

\* The material a loader holds when it has loaded version v of its artifact
\* (0: nothing loaded).  The certificate loader holds a certificate and its key.
Material(l, v) == IF l = "cert" THEN [cert |-> v, key |-> v] ELSE [pool |-> v]

IdleLoader(l, v) ==
  [pc |-> "idle", reading |-> 0, material |-> Material(l, v), generation |-> 0,
   seen |-> 1]

IdleWaiter == [pc |-> "idle", call |-> "none", on |-> "none", start |-> 0,
               cancelled |-> FALSE, result |-> "none"]

IdleHandshake == [pc |-> "idle", cert |-> 0, key |-> 0, pool |-> 0,
                  newCert |-> FALSE, newPool |-> FALSE,
                  certDue |-> FALSE, poolDue |-> FALSE]

\* replaceFile: the artifact is rewritten with a new modification time; what
\* is written parses or does not.
replaceFile(l) ==
  /\ disk[l].version < MaxVersions
  /\ \E valid \in BOOLEAN :
       disk' = [disk EXCEPT ![l] = [version |-> @.version + 1, valid |-> valid]]
  /\ UNCHANGED <<clientVars, initialWaitDelay, maxWaitDelay, wfc, shutdown, watch,
                 stream, attached, ld, wt, hs>>

\* The loader notices that its artifact has changed and reads it.
Loader_detect(l) ==
  /\ attached[l]
  /\ ld[l].pc = "idle"
  /\ disk[l].version # ld[l].seen
  /\ ld' = [ld EXCEPT ![l] = [@ EXCEPT !.pc = "parse", !.reading = disk[l].version,
                                        !.seen = disk[l].version]]
  /\ UNCHANGED <<clientVars, initialWaitDelay, maxWaitDelay, wfc, shutdown, watch,
                 stream, attached, disk, wt, hs>>

\* The artifact is rewritten while the loader reads it: what the loader
\* parses is the version it opened.
parses(l) == disk[l].version = ld[l].reading /\ disk[l].valid

\* Mutant of Loader_failed: the material that did not parse replaces the
\* active material.
Loader_failed_blanking(l) ==
  /\ ld[l].pc = "parse"
  /\ ~parses(l)
  /\ ld' = [ld EXCEPT ![l] = [@ EXCEPT !.pc = "idle", !.reading = 0,
                                        !.material = Material(l, 0)]]
  /\ UNCHANGED <<clientVars, initialWaitDelay, maxWaitDelay, wfc, shutdown, watch,
                 stream, attached, disk, wt, hs>>

\* Parsing fails: the failure is logged, the active material stays.
Loader_failed(l) ==
  /\ ld[l].pc = "parse"
  /\ ~parses(l)
  /\ ld' = [ld EXCEPT ![l] = [@ EXCEPT !.pc = "idle", !.reading = 0]]
  /\ UNCHANGED <<clientVars, initialWaitDelay, maxWaitDelay, wfc, shutdown, watch,
                 stream, attached, disk, wt, hs>>

\* Mutant of Loader_reload: the certificate is swapped and the key is not.
Loader_reload_torn(l) ==
  /\ ld[l].pc = "parse"
  /\ parses(l)
  /\ ld' = [ld EXCEPT ![l] =
              [@ EXCEPT !.pc = "idle", !.reading = 0,
                        !.material = IF l = "cert"
                                       THEN [cert |-> ld[l].reading, key |-> @.key]
                                       ELSE Material(l, ld[l].reading),
                        !.generation = @ + 1]]
  /\ UNCHANGED <<clientVars, initialWaitDelay, maxWaitDelay, wfc, shutdown, watch,
                 stream, attached, disk, wt, hs>>

\* Mutant of Loader_reload: the generation is not counted.
Loader_reload_uncounted(l) ==
  /\ ld[l].pc = "parse"
  /\ parses(l)
  /\ ld' = [ld EXCEPT ![l] = [@ EXCEPT !.pc = "idle", !.reading = 0,
                                        !.material = Material(l, ld[l].reading)]]
  /\ UNCHANGED <<clientVars, initialWaitDelay, maxWaitDelay, wfc, shutdown, watch,
                 stream, attached, disk, wt, hs>>

\* Parsing succeeds: the active material is swapped and the reload
\* generation incremented, in one step; the waiters see the new generation.
Loader_reload(l) ==
  /\ ld[l].pc = "parse"
  /\ parses(l)
  /\ ld' = [ld EXCEPT ![l] = [@ EXCEPT !.pc = "idle", !.reading = 0,
                                        !.material = Material(l, ld[l].reading),
                                        !.generation = @ + 1]]
  /\ UNCHANGED <<clientVars, initialWaitDelay, maxWaitDelay, wfc, shutdown, watch,
                 stream, attached, disk, wt, hs>>

\* Mutant of configured: the other field is tested.
configured_other(call) ==
  IF call = "WaitForCertificateReload" THEN attached["pool"] ELSE attached["cert"]

\* grpc_common_test.go, lines 41 and 49: c.loader == nil, c.pool == nil.
configured(call) ==
  IF call = "WaitForCertificateReload" THEN attached["cert"] ELSE attached["pool"]

\* Mutant of delegate: both calls wait on the certificate loader.
delegate_certOnly(call) == "cert"

\* grpc_common_test.go, lines 45 and 53: the loader whose WaitForReload is called.
delegate(call) == IF call = "WaitForCertificateReload" THEN "cert" ELSE "pool"

\* grpc_common_test.go, lines 42 and 50.
notConfigured(call) ==
  IF call = "WaitForCertificateReload" THEN "no certificate loaded"
  ELSE "no certificate pool loaded"

\* The waiter after the call up to the call of WaitForReload, which notes
\* the loader's generation.  WaitForReload on a nil loader returns nothing.
called(w, call) ==
  IF ~configured(call)
    THEN [wt[w] EXCEPT !.pc = "done", !.call = call, !.result = notConfigured(call)]
  ELSE IF ~attached[delegate(call)]
    THEN [wt[w] EXCEPT !.pc = "panic", !.call = call, !.on = delegate(call)]
  ELSE [wt[w] EXCEPT !.pc = "waiting", !.call = call, !.on = delegate(call),
                     !.start = ld[delegate(call)].generation]

\* grpc_common_test.go, lines 40-46.
WaitForCertificateReload(w) ==
  /\ wt[w].pc = "idle"
  /\ wt' = [wt EXCEPT ![w] = called(w, "WaitForCertificateReload")]
  /\ UNCHANGED <<clientVars, initialWaitDelay, maxWaitDelay, wfc, shutdown, watch,
                 stream, attached, disk, ld, hs>>

\* grpc_common_test.go, lines 48-54.
WaitForCertPoolReload(w) ==
  /\ wt[w].pc = "idle"
  /\ wt' = [wt EXCEPT ![w] = called(w, "WaitForCertPoolReload")]
  /\ UNCHANGED <<clientVars, initialWaitDelay, maxWaitDelay, wfc, shutdown, watch,
                 stream, attached, disk, ld, hs>>

\* The context of the call is cancelled or its deadline passes.
ctx_cancel(w) ==
  /\ wt[w].pc \in {"idle", "waiting"}
  /\ ~wt[w].cancelled
  /\ wt' = [wt EXCEPT ![w].cancelled = TRUE]
  /\ UNCHANGED <<clientVars, initialWaitDelay, maxWaitDelay, wfc, shutdown, watch,
                 stream, attached, disk, ld, hs>>

\* WaitForReload returns nil: the loader's generation has advanced.
WaitForReload_reloaded(w) ==
  /\ wt[w].pc = "waiting"
  /\ ld[wt[w].on].generation > wt[w].start
  /\ wt' = [wt EXCEPT ![w] = [@ EXCEPT !.pc = "done", !.result = "nil"]]
  /\ UNCHANGED <<clientVars, initialWaitDelay, maxWaitDelay, wfc, shutdown, watch,
                 stream, attached, disk, ld, hs>>

\* WaitForReload returns ctx.Err().
WaitForReload_cancelled(w) ==
  /\ wt[w].pc = "waiting"
  /\ wt[w].cancelled
  /\ wt' = [wt EXCEPT ![w] = [@ EXCEPT !.pc = "done", !.result = "ctx"]]
  /\ UNCHANGED <<clientVars, initialWaitDelay, maxWaitDelay, wfc, shutdown, watch,
                 stream, attached, disk, ld, hs>>

\* A reload of loader l is due or under way: its artifact on disk parses and
\* is not the one it holds.
ReloadDue(l) ==
  attached[l] /\ disk[l].valid /\ ld[l].material # Material(l, disk[l].version)

\* The handshake asks for the active certificate: the certificate and its
\* key are read in one atomic read of the loader's material.
Handshake_certificate ==
  /\ hs.pc = "idle"
  /\ attached["cert"]
  /\ hs' = [hs EXCEPT !.pc = "cert", !.cert = ld["cert"].material.cert,
                      !.key = ld["cert"].material.key,
                      !.newCert = ld["cert"].generation > 0,
                      !.certDue = ReloadDue("cert")]
  /\ UNCHANGED <<clientVars, initialWaitDelay, maxWaitDelay, wfc, shutdown, watch,
                 stream, attached, disk, ld, wt>>

\* The handshake asks for the active trust pool.
Handshake_pool ==
  /\ hs.pc = "cert"
  /\ attached["pool"]
  /\ hs' = [hs EXCEPT !.pc = "done", !.pool = ld["pool"].material.pool,
                      !.newPool = ld["pool"].generation > 0,
                      !.poolDue = ReloadDue("pool")]
  /\ UNCHANGED <<clientVars, initialWaitDelay, maxWaitDelay, wfc, shutdown, watch,
                 stream, attached, disk, ld, wt>>

(* --------------------------- specifications --------------------------- *)
\* No credentials object.
NoCredentials ==
  /\ attached = [l \in Loaders |-> FALSE]
  /\ disk = [l \in Loaders |-> [version |-> 1, valid |-> TRUE]]
  /\ ld = [l \in Loaders |-> IdleLoader(l, 0)]
  /\ wt = [w \in Waiters |-> IdleWaiter]
  /\ hs = IdleHandshake

InitLoops ==
  /\ wfc = IdleWait
  /\ shutdown = FALSE
  /\ watch = IdleWatch
  /\ stream = [sent |-> <<>>, closed |-> FALSE]
  /\ NoCredentials

Init ==
  /\ InitClient
  /\ initialWaitDelay = 1
  /\ maxWaitDelay = MaxDelay
  /\ InitLoops

Next ==
  \/ load_call(Loader)
  \/ \E t \in Threads :
       \/ load_endpoints(t)
       \/ load_new(t)
       \/ load_prev(t)
       \/ load_close(t)
       \/ load_store(t)
       \/ notifyListeners_lock(t)
       \/ notifyListeners_call(t)
       \/ notifyListeners_unlock(t)
       \/ EtcdClientCreated_return(t)
       \/ EtcdClientCreated_reenter(t)
       \/ Close_get(t)
       \/ Close_close(t)
       \/ return(t)
  \/ \E l \in Listeners :
       \/ AddListener(l)
       \/ RemoveListener(l)
       \/ go_EtcdClientCreated(l)
       \/ go_reenter(l)
       \/ go_RemoveListener(l)

\* The client's life: construction, reloads, listeners, Close.
Spec == Init /\ [][Next]_vars

\* The object as NewEtcdClient leaves it when it succeeds: with a client, or
\* without one when no endpoint is configured.
Constructed ==
  /\ ctor = "ok"
  /\ compatSection = <<>>
  /\ slot \in {Nil, 1}
  /\ clients = IF slot = Nil THEN <<>>
               ELSE <<[tls |-> FALSE, closedByLoad |-> 0, closedByClose |-> 0]>>
  /\ mu = Free
  /\ listeners = {}
  /\ th = [t \in Threads |-> IdleThread]
  /\ gor = NoGoroutines
  /\ everNotified = {}
  /\ ops = [loads |-> 0, adds |-> 0, closes |-> 0]
  /\ config = AnyConfig

InitWait ==
  /\ Constructed
  /\ \E d \in WaitDelays : initialWaitDelay = d[1] /\ maxWaitDelay = d[2]
  /\ InitLoops

NextWait ==
  \/ WaitForConnection_call
  \/ syncClient_nil
  \/ WaitForConnection_synced
  \/ WaitForConnection_failed
  \/ WaitForConnection_sleep
  \/ Shutdown

\* WaitForConnection on a constructed object.
SpecWait == InitWait /\ [][NextWait]_vars

NextWatch ==
  \/ Watch_nil
  \/ Watch_open
  \/ Watch_created
  \/ Watch_response
  \/ Watch_event
  \/ Watch_closed
  \/ etcd_send
  \/ etcd_close

InitWatch ==
  /\ Constructed
  /\ initialWaitDelay = 1
  /\ maxWaitDelay = MaxDelay
  /\ InitLoops

\* Watch on a constructed object.
SpecWatch == InitWatch /\ [][NextWatch]_vars

\* NewEtcdClient on a given configuration file.
InitResolve ==
  /\ Running
  /\ config \in Configs(StringsOver(ListChars, MaxListLen))
  /\ initialWaitDelay = 1
  /\ maxWaitDelay = MaxDelay
  /\ InitLoops

NextResolve ==
  \/ load_endpoints(Loader)

\* The endpoints the first load resolves from a configuration file.
SpecResolve == InitResolve /\ [][NextResolve]_vars

\* Two threads have each called load(config, true) on a constructed object
\* with a client installed; load takes no lock.
InitLoads ==
  /\ ctor = "ok"
  /\ compatSection = <<>>
  /\ slot = 1
  /\ clients = <<[tls |-> FALSE, closedByLoad |-> 0, closedByClose |-> 0]>>
  /\ mu = Free
  /\ listeners = {}
  /\ th = [t \in Threads |->
             [IdleThread EXCEPT !.pc = "load_endpoints", !.op = "load",
                                !.ignoreErrors = TRUE]]
  /\ gor = NoGoroutines
  /\ everNotified = {}
  /\ ops = [loads |-> Cardinality(Threads), adds |-> 0, closes |-> 0]
  /\ config = AnyConfig
  /\ initialWaitDelay = 1
  /\ maxWaitDelay = MaxDelay
  /\ InitLoops

NextLoads ==
  \E t \in Threads :
    \/ load_endpoints(t)
    \/ load_new(t)
    \/ load_prev(t)
    \/ load_close(t)
    \/ load_store(t)
    \/ notifyListeners_lock(t)
    \/ notifyListeners_unlock(t)
    \/ return(t)

\* Concurrent reloads.
SpecLoads == InitLoads /\ [][NextLoads]_vars

\* The credentials object as it is created: the loaders that are attached
\* have loaded the first version of their artifacts.
InitCreds ==
  /\ Constructed
  /\ slot = Nil
  /\ initialWaitDelay = 1
  /\ maxWaitDelay = MaxDelay
  /\ wfc = IdleWait
  /\ shutdown = FALSE
  /\ watch = IdleWatch
  /\ stream = [sent |-> <<>>, closed |-> FALSE]
  /\ attached \in [Loaders -> BOOLEAN]
  /\ disk = [l \in Loaders |-> [version |-> 1, valid |-> TRUE]]
  /\ ld = [l \in Loaders |-> IdleLoader(l, IF attached[l] THEN 1 ELSE 0)]
  /\ wt = [w \in Waiters |-> IdleWaiter]
  /\ hs = IdleHandshake

NextCreds ==
  \/ \E l \in Loaders :
       \/ replaceFile(l)
       \/ Loader_detect(l)
       \/ Loader_failed(l)
       \/ Loader_reload(l)
  \/ \E w \in Waiters :
       \/ WaitForCertificateReload(w)
       \/ WaitForCertPoolReload(w)
       \/ ctx_cancel(w)
       \/ WaitForReload_reloaded(w)
       \/ WaitForReload_cancelled(w)

\* The credentials: the loaders and the callers waiting for a reload.
SpecCreds == InitCreds /\ [][NextCreds]_vars

\* A credentials object with both loaders attached.
InitHandshake ==
  /\ Constructed
  /\ slot = Nil
  /\ initialWaitDelay = 1
  /\ maxWaitDelay = MaxDelay
  /\ wfc = IdleWait
  /\ shutdown = FALSE
  /\ watch = IdleWatch
  /\ stream = [sent |-> <<>>, closed |-> FALSE]
  /\ attached = [l \in Loaders |-> TRUE]
  /\ disk = [l \in Loaders |-> [version |-> 1, valid |-> TRUE]]
  /\ ld = [l \in Loaders |-> IdleLoader(l, 1)]
  /\ wt = [w \in Waiters |-> IdleWaiter]
  /\ hs = IdleHandshake

NextHandshake ==
  \/ \E l \in Loaders :
       \/ replaceFile(l)
       \/ Loader_detect(l)
       \/ Loader_failed(l)
       \/ Loader_reload(l)
  \/ Handshake_certificate
  \/ Handshake_pool

\* A TLS handshake taking its credentials while the loaders reload.
SpecHandshake == InitHandshake /\ [][NextHandshake]_vars

(* ------------------------------ claims -------------------------------- *)
\* A finished call of load on thread t.
LoadReturned(t) == th[t].pc = "returned" /\ th[t].op = "load"

\* C1: the handle held by the current-client slot is never one that load has
\* already closed: load closes the previous handle only after it has stored
\* the new one.
C1_PreviousClosedAfterInstall ==
  slot # Nil => clients[slot].closedByLoad = 0

\* C2, as claimed: a reload (ignoreErrors = true) that hits any failure
\* returns no error and neither closes nor replaces the installed client.
C2_AnyFailureLeavesClient ==
  \A t \in Threads :
    (LoadReturned(t) /\ th[t].ignoreErrors /\ th[t].failure # {}) =>
      (th[t].err = "nil" /\ ~th[t].closed /\ (th[t].prev # Nil => ~th[t].stored))

\* C2, amended: a reload returns no error whatever fails; when endpoint
\* discovery or client creation fails it neither closes nor replaces the
\* installed client; when only the TLS configuration fails it goes on, and a
\* client it then installs has no TLS.
C2_ReloadFailureTolerated ==
  \A t \in Threads :
    (LoadReturned(t) /\ th[t].ignoreErrors) =>
      /\ th[t].err = "nil"
      /\ (th[t].failure \cap {"discovery", "new"} # {}) =>
           (~th[t].closed /\ ~th[t].stored /\ th[t].client = Nil)
      /\ ("tls" \in th[t].failure /\ th[t].stored) =>
           (~clients[th[t].client].tls /\ slot = th[t].client)

C2_Witness ==
  /\ LoadReturned(Loader) /\ th[Loader].ignoreErrors
  /\ "new" \in th[Loader].failure
  /\ slot # Nil /\ clients[slot].closedByLoad = 0

\* C3: in NewEtcdClient (load with ignoreErrors = false) a failure of
\* endpoint discovery, of the TLS configuration or of client creation makes
\* NewEtcdClient return an error and no EtcdClient, with no client stored and
\* no listener notified; without a failure it returns the object.
C3_ConstructionFailureIsFatal ==
  /\ \A t \in Threads :
       (LoadReturned(t) /\ ~th[t].ignoreErrors) =>
         /\ th[t].failure # {} <=> ctor = "failed"
         /\ th[t].failure # {} <=> th[t].err # "nil"
         /\ th[t].failure # {} => th[t].err \in th[t].failure
  /\ ctor = "failed" =>
       /\ slot = Nil /\ clients = <<>>
       /\ \A t \in Threads : ~th[t].stored
       /\ everNotified = {} /\ gor = NoGoroutines /\ listeners = {}

C3_Witness ==
  ctor = "failed" /\ th[Loader].failure = {"new"} /\ th[Loader].err = "new"

\* C4: a successful load notifies every listener registered at that moment
\* exactly once, and dispatches each notification independently: while a
\* listener's EtcdClientCreated has not returned, load can still notify the
\* remaining listeners and return to its caller.
C4_IndependentDispatch ==
  \A t \in Threads :
    /\ (LoadReturned(t) /\ th[t].stored) =>
         \A l \in Listeners : th[t].notified[l] = IF l \in th[t].snapshot THEN 1 ELSE 0
    /\ th[t].pc \in {"callback", "callback_lock"} =>
         ENABLED (notifyListeners_call(t) \/ notifyListeners_unlock(t))

\* C5: a call of AddListener or RemoveListener always gets the listener lock
\* in the end, also when a listener makes it from inside its own
\* EtcdClientCreated: the holder of the lock is never itself waiting for it.
C5_AddRemoveAlwaysReturn ==
  \A t \in Threads : mu = t => th[t].pc # "callback_lock"

\* C6: AddListener on an object with a client installed starts exactly one
\* asynchronous EtcdClientCreated for the listener and returns without
\* running it; with no client installed it starts none, and no listener is
\* notified before a load has installed a client.
C6_LateListenerNotifiedOnce ==
  /\ [](slot = Nil => (gor = NoGoroutines /\ everNotified = {}))
  /\ [][\A l \in Listeners :
          AddListener(l) =>
            /\ gor'[l].spawned = gor[l].spawned + (IF slot # Nil THEN 1 ELSE 0)
            /\ gor'[l].waiting = gor[l].waiting
            /\ \A k \in Listeners \ {l} : gor'[k] = gor[k]
            /\ everNotified' = everNotified
            /\ th' = th]_vars
  /\ [][\A l \in Listeners :
          gor'[l].spawned < gor[l].spawned =>
            (gor'[l].spawned = gor[l].spawned - 1 /\ l \in everNotified')]_vars

C6_Witness ==
  \E l \in Listeners :
    /\ l \in listeners /\ slot # Nil
    /\ gor[l].spawned = 1 /\ l \notin everNotified
    /\ \A t \in Threads : th[t].pc = "idle"

Min(a, b) == IF a < b THEN a ELSE b

\* C7: the delay slept after the k-th failed synchronization is
\* min(initialWaitDelay * 2^(k-1), maxWaitDelay), so the delays never
\* decrease and never exceed the maximum; WaitForConnection returns at the
\* first success, whatever the number of failures before it.
C7_BackoffDelays ==
  /\ \A k \in 1..Len(wfc.slept) :
       /\ wfc.slept[k] = Min(initialWaitDelay * 2^(k - 1), maxWaitDelay)
       /\ k > 1 => wfc.slept[k - 1] <= wfc.slept[k]
  /\ wfc.pc = "sync" => wfc.attempts = Len(wfc.slept)
  /\ wfc.pc = "sleep" => wfc.attempts = Len(wfc.slept) + 1
  /\ wfc.pc = "done" => wfc.attempts = Len(wfc.slept) + 1

C7_Witness ==
  /\ wfc.pc = "done" /\ Len(wfc.slept) = 5
  /\ wfc.slept[1] = initialWaitDelay /\ wfc.slept[3] < maxWaitDelay
  /\ wfc.slept[4] = maxWaitDelay /\ wfc.slept[5] = maxWaitDelay

\* C8: once the owning process has signalled its shutdown, WaitForConnection
\* stops retrying: at most the attempt under way when the signal came is
\* followed by a return, no further synchronization is started.
C8_StopsAfterShutdown ==
  wfc.sinceShutdown <= 1

\* The events of the responses Watch has read that it has gone through.
RECURSIVE EventsThrough(_)
EventsThrough(r) ==
  IF r = 0 THEN <<>>
  ELSE LET response == stream.sent[r]
           all == response.events
           done == IF response.err # "nil" THEN <<>>
                   ELSE IF r = watch.received /\ watch.pc = "events"
                     THEN SubSeq(all, 1, watch.idx - 1)
                   ELSE all
       IN EventsThrough(r - 1) \o done

PutsAndDeletes(events) == SelectSeq(events, LAMBDA ev : ev.type \in {"PUT", "DELETE"})

KeyCalls ==
  SelectSeq(watch.calls, LAMBDA call : call[1] \in {"EtcdKeyUpdated", "EtcdKeyDeleted"})

CallFor(ev) ==
  IF ev.type = "PUT" THEN <<"EtcdKeyUpdated", ev.key, ev.value>>
  ELSE <<"EtcdKeyDeleted", ev.key>>

\* C9: the EtcdKeyUpdated and EtcdKeyDeleted calls Watch has made are, in
\* order and one for one, the Put and Delete events it has gone through in
\* the responses read: a Put with its key and value, a Delete with its key.
C9_EventsRelayedInOrder ==
  LET relayed == PutsAndDeletes(EventsThrough(watch.received))
  IN KeyCalls = [i \in 1..Len(relayed) |-> CallFor(relayed[i])]

C9_Witness ==
  /\ watch.pc = "done" /\ watch.result = "nil"
  /\ Len(stream.sent) = 2 /\ watch.received = 2
  /\ stream.sent[1].events = <<[type |-> "PUT", key |-> "k2", value |-> "v1"],
                               [type |-> "DELETE", key |-> "k1", value |-> "v1"]>>
  /\ stream.sent[2].events = <<[type |-> "DELETE", key |-> "k2", value |-> "v1"],
                               [type |-> "PUT", key |-> "k2", value |-> "v1"]>>

\* The responses in front of the first one that carries an error.
RECURSIVE BeforeError(_)
BeforeError(responses) ==
  IF responses = <<>> \/ Head(responses).err # "nil" THEN <<>>
  ELSE <<Head(responses)>> \o BeforeError(Tail(responses))

RECURSIVE CountKeyEvents(_)
CountKeyEvents(responses) ==
  IF responses = <<>> THEN 0
  ELSE Len(PutsAndDeletes(Head(responses).events)) + CountKeyEvents(Tail(responses))

\* C10: when a response carries an error, Watch returns that error on
\* reading it, has dispatched the events of the responses in front of it
\* and dispatches none of that response or of a later one, and opens no
\* second stream.
C10_ErrorEndsWatch ==
  LET good == BeforeError(stream.sent)
      failedAt == Len(good) + 1
  IN /\ watch.received <= failedAt
     /\ watch.opens <= 1
     /\ (failedAt <= Len(stream.sent) /\ watch.received = failedAt) =>
          /\ watch.pc = "done"
          /\ watch.result = stream.sent[failedAt].err
          /\ Len(KeyCalls) = CountKeyEvents(good)
     /\ watch.result \notin {"none", "nil"} =>
          (failedAt <= Len(stream.sent) /\ watch.received = failedAt)

C10_Witness ==
  /\ watch.pc = "done" /\ watch.result = "compacted"
  /\ Len(stream.sent) = 2 /\ watch.received = 1
  /\ stream.sent[1].events # <<>> /\ stream.sent[2].events # <<>>

\* The event Watch is about to go through, if it is of another type than Put
\* and Delete.
AtUnknownEvent ==
  /\ watch.pc = "events"
  /\ watch.idx <= Len(stream.sent[watch.received].events)
  /\ stream.sent[watch.received].events[watch.idx].type \notin {"PUT", "DELETE"}

\* C11: going through an event that is neither a Put nor a Delete makes no
\* watcher call and does not end Watch, which goes on with the next event;
\* and when Watch returns at the end of an error-free stream it has made one
\* call for every Put and Delete sent, those behind such an event included.
C11_UnknownEventSkipped ==
  /\ [][(AtUnknownEvent /\ watch' # watch) =>
          /\ watch'.calls = watch.calls
          /\ watch'.pc = "events"
          /\ watch'.idx = watch.idx + 1
          /\ watch'.result = "none"]_vars
  /\ []((watch.pc = "done" /\ watch.result = "nil") =>
          /\ watch.received = Len(stream.sent)
          /\ Len(KeyCalls) = CountKeyEvents(stream.sent))

C11_Witness ==
  /\ watch.pc = "done" /\ watch.result = "nil"
  /\ Len(stream.sent) = 2
  /\ stream.sent[1].events = <<[type |-> "OTHER", key |-> "k1", value |-> "v1"],
                               [type |-> "PUT", key |-> "k1", value |-> "v1"]>>
  /\ stream.sent[2].events = <<[type |-> "DELETE", key |-> "k2", value |-> "v1"]>>
  /\ watch.calls = <<<<"EtcdWatchCreated", WatchKey>>,
                     <<"EtcdKeyUpdated", "k1", "v1">>,
                     <<"EtcdKeyDeleted", "k2">>>>

\* C12: a client that load has created (the endpoint list was then not
\* empty) has TLS enabled exactly when clientkey, clientcert and cacert all
\* name a file and the TLS configuration built from them succeeded; when one
\* of the three is empty no TLS configuration is built and the client has no
\* TLS.
C12_TLSIffAllThreeAndBuilt ==
  \A t \in Threads :
    th[t].client # Nil =>
      /\ th[t].endpoints # <<>>
      /\ clients[th[t].client].tls <=>
           (th[t].files = {"clientkey", "clientcert", "cacert"} /\ th[t].tlsConfig = "ok")
      /\ th[t].files # {"clientkey", "clientcert", "cacert"} =>
           (th[t].tlsConfig = "none" /\ ~clients[th[t].client].tls)

C12_Witness ==
  \E t \in Threads :
    /\ LoadReturned(t) /\ th[t].stored /\ slot = th[t].client
    /\ th[t].files = {"clientkey", "cacert"}
    /\ ~clients[slot].tls

\* C13: the current-client slot always holds nothing or a handle that
\* clientv3.New has returned; a step changes it only by load storing its new
\* handle, so that a read during a replacement gets the old handle or the new
\* one; and once it holds a handle it is never empty again.
C13_SlotOldOrNew ==
  /\ [](slot \in 0..Len(clients))
  /\ [][slot # Nil => slot' # Nil]_vars
  /\ [][slot' # slot =>
          \E t \in Threads :
            /\ th[t].pc = "load_store" /\ th'[t].stored
            /\ th[t].client \in 1..Len(clients)
            /\ slot = th[t].prev /\ slot' = th[t].client]_vars

C13_Witness ==
  \E t \in Threads :
    /\ LoadReturned(t) /\ th[t].stored
    /\ th[t].prev # Nil /\ th[t].prev # th[t].client
    /\ slot = th[t].client

\* A reload on thread t whose SRV lookup has failed (the endpoints option
\* was then empty and discoverysrv was not).
DiscoveryFailedOnReload(t) ==
  LoadReturned(t) /\ th[t].ignoreErrors /\ "discovery" \in th[t].failure

\* C14: a reload whose endpoints option is empty and whose SRV lookup fails
\* returns no error, has no endpoints, creates no client and notifies no
\* listener, and the step in which it fails and returns leaves the
\* current-client slot, the clients and the listeners as they were.
C14_FailedDiscoveryOnReload ==
  /\ [](\A t \in Threads :
          DiscoveryFailedOnReload(t) =>
            /\ th[t].err = "nil"
            /\ th[t].endpoints = <<>>
            /\ th[t].client = Nil /\ ~th[t].closed /\ ~th[t].stored
            /\ th[t].notified = NoneNotified)
  /\ [][\A t \in Threads :
          (th[t].pc = "load_endpoints" /\ th[t].ignoreErrors
             /\ "discovery" \in th'[t].failure) =>
            /\ th'[t].pc = "returned"
            /\ slot' = slot /\ clients' = clients
            /\ everNotified' = everNotified /\ gor' = gor /\ mu' = mu]_vars

C14_Witness ==
  /\ DiscoveryFailedOnReload(Loader)
  /\ slot # Nil /\ listeners # {}

\* C15: WaitForCertificateReload on credentials without a certificate loader
\* returns "no certificate loaded" in the step of the call, without waiting,
\* and WaitForCertPoolReload without a pool loader returns "no certificate
\* pool loaded"; with its loader attached each call waits on its own loader
\* and returns what that wait returns.
C15_NotConfiguredOrDelegated ==
  \A w \in Waiters :
    /\ wt[w].pc # "panic"
    /\ wt[w].call = "WaitForCertificateReload" =>
         IF attached["cert"]
           THEN wt[w].on = "cert" /\ wt[w].result \in {"none", "nil", "ctx"}
           ELSE wt[w].pc = "done" /\ wt[w].on = "none"
                  /\ wt[w].result = "no certificate loaded"
    /\ wt[w].call = "WaitForCertPoolReload" =>
         IF attached["pool"]
           THEN wt[w].on = "pool" /\ wt[w].result \in {"none", "nil", "ctx"}
           ELSE wt[w].pc = "done" /\ wt[w].on = "none"
                  /\ wt[w].result = "no certificate pool loaded"

C15_Witness ==
  /\ ~attached["cert"] /\ attached["pool"]
  /\ wt["w1"].call = "WaitForCertificateReload"
  /\ wt["w1"].result = "no certificate loaded"
  /\ wt["w2"].call = "WaitForCertPoolReload"
  /\ wt["w2"].pc = "done" /\ wt["w2"].result = "nil"

\* The loader a call is to wait on.
OwnLoader(w) == IF wt[w].call = "WaitForCertificateReload" THEN "cert" ELSE "pool"

Released(w) == ld[OwnLoader(w)].generation > wt[w].start

\* C16: a caller waiting in WaitForCertificateReload or WaitForCertPoolReload
\* leaves the wait only by returning, with nil when the generation of its
\* own loader has advanced since the call or with the context's error when
\* the context is cancelled; it can return as soon as one of the two is the
\* case, a cancelled waiter also without any reload; and a reload of a
\* loader releases every waiter then waiting on it.
C16_BlockedUntilReloadOrCancel ==
  /\ [][\A w \in Waiters :
          (wt[w].pc = "waiting" /\ wt'[w].pc # "waiting") =>
            /\ wt'[w].pc = "done"
            /\ \/ Released(w) /\ wt'[w].result = "nil"
               \/ wt[w].cancelled /\ wt'[w].result = "ctx"]_vars
  /\ [](\A w \in Waiters :
          wt[w].pc = "waiting" =>
            /\ Released(w) => ENABLED WaitForReload_reloaded(w)
            /\ wt[w].cancelled => ENABLED WaitForReload_cancelled(w)
            /\ (~Released(w) /\ ~wt[w].cancelled) =>
                 ~ENABLED (WaitForReload_reloaded(w) \/ WaitForReload_cancelled(w)))
  /\ [][\A l \in Loaders :
          ld'[l].generation # ld[l].generation =>
            \A w \in Waiters :
              (wt[w].pc = "waiting" /\ OwnLoader(w) = l) =>
                ld'[l].generation > wt[w].start]_vars

C16_Witness ==
  /\ \A w \in Waiters :
       /\ wt[w].pc = "waiting" /\ wt[w].call = "WaitForCertificateReload"
       /\ wt[w].start = 0 /\ ~wt[w].cancelled
  /\ ld["cert"].generation = 1
  /\ ld["pool"].generation = 0

\* C17: a parse that fails leaves the loader's active material and its
\* reload generation as they were; the material changes only in a step that
\* parses the artifact read and increments the generation by one, so the
\* generation never decreases; and the material of an attached loader is
\* never empty.
C17_FailedParseKeepsMaterial ==
  /\ [][\A l \in Loaders :
          /\ (ld[l].pc = "parse" /\ ~parses(l) /\ ld'[l] # ld[l]) =>
               (ld'[l].material = ld[l].material
                  /\ ld'[l].generation = ld[l].generation)
          /\ ld'[l].generation \in {ld[l].generation, ld[l].generation + 1}
          /\ ld'[l].material # ld[l].material <=>
               ld'[l].generation = ld[l].generation + 1
          /\ ld'[l].generation = ld[l].generation + 1 =>
               (ld[l].pc = "parse" /\ parses(l)
                  /\ ld'[l].material = Material(l, ld[l].reading))]_vars
  /\ [](\A l \in Loaders : attached[l] => ld[l].material # Material(l, 0))

C17_Witness ==
  /\ attached["cert"]
  /\ disk["cert"] = [version |-> 3, valid |-> TRUE]
  /\ ld["cert"].pc = "idle" /\ ld["cert"].seen = 3
  /\ ld["cert"].material = Material("cert", 3)
  /\ ld["cert"].generation = 1

Named(s) == SelectSeq(s, LAMBDA ch : ch \notin {" ", ","})

RECURSIVE Concat(_)
Concat(seqs) == IF seqs = <<>> THEN <<>> ELSE Head(seqs) \o Concat(Tail(seqs))

RECURSIVE CountNamed(_, _)
\* How many of the pieces between the commas of s hold a character that is
\* not a blank; named tells whether the piece under way holds one.
CountNamed(s, named) ==
  IF s = <<>> THEN (IF named THEN 1 ELSE 0)
  ELSE IF Head(s) = "," THEN (IF named THEN 1 ELSE 0) + CountNamed(Tail(s), FALSE)
  ELSE CountNamed(Tail(s), named \/ Head(s) # " ")

\* ep is an entry of the list s: a piece of s without a comma, with no blank
\* at either end, and not empty.
Entry(ep, s) ==
  /\ ep # <<>> /\ Head(ep) # " " /\ ep[Len(ep)] # " "
  /\ \A i \in 1..Len(ep) : ep[i] # ","
  /\ \E i \in 1..Len(s) : i + Len(ep) - 1 <= Len(s) /\ SubSeq(s, i, i + Len(ep) - 1) = ep

\* C21: after the first load on a configuration file: when the endpoints
\* option is not empty, the endpoints are its entries, trimmed, the empty
\* ones left out, in their order, and the discovery domain is not looked up,
\* also when these are no endpoints at all; when the option is empty and a
\* discovery domain is configured, the endpoints are those of the lookup;
\* and when the resolution ends without an error and without an endpoint,
\* NewEtcdClient succeeds with no client installed and IsConfigured false.
C21_EndpointPriority ==
  LET call == th[Loader]
      endpointsString == getConfigStringWithFallback(config.endpoints)
      discoverySrv == getConfigStringWithFallback(config.discoverysrv)
  IN call.pc # "load_endpoints" =>
       /\ endpointsString # <<>> =>
            /\ \A i \in 1..Len(call.endpoints) : Entry(call.endpoints[i], endpointsString)
            /\ Named(Concat(call.endpoints)) = Named(endpointsString)
            /\ Len(call.endpoints) = CountNamed(endpointsString, FALSE)
            /\ call.failure = {}
       /\ (endpointsString = <<>> /\ discoverySrv # <<>> /\ config.srvOk) =>
            call.endpoints = SrvEndpoints
       /\ (endpointsString = <<>> /\ discoverySrv = <<>>) =>
            (call.endpoints = <<>> /\ call.failure = {})
       /\ (call.endpoints = <<>> /\ call.failure = {}) =>
            /\ call.pc = "returned" /\ call.err = "nil"
            /\ ctor = "ok" /\ slot = Nil /\ ~IsConfigured /\ clients = <<>>
       /\ call.endpoints # <<>> => (call.pc = "load_new" /\ ctor = "running")

C21_Witness ==
  /\ th[Loader].pc = "load_new"
  /\ config.endpoints.etcd = <<",", "b", " ", ",", "a">>
  /\ config.discoverysrv.etcd = <<"d">> /\ config.srvOk
  /\ th[Loader].endpoints = << <<"b">>, <<"a">> >>

\* The calls of EtcdWatchCreated among the watcher calls made.
CreatedCalls ==
  SelectSeq(watch.calls, LAMBDA call : call[1] = "EtcdWatchCreated")

\* C22: a call of Watch has called EtcdWatchCreated once, for its key, as
\* soon as it is past line 246 and not before; by then it has opened one
\* stream, on the handle that is the current client; and the call comes
\* first among the watcher calls, in front of every EtcdKeyUpdated and
\* EtcdKeyDeleted.
C22_CreatedOnceAfterOpen ==
  /\ watch.pc \in {"idle", "opened", "panic"} => watch.calls = <<>>
  /\ watch.pc \in {"range", "events", "done"} =>
       /\ Len(CreatedCalls) = 1
       /\ watch.calls[1] = <<"EtcdWatchCreated", WatchKey>>
       /\ watch.opens = 1
       /\ watch.handle # Nil /\ watch.handle = getEtcdClient
  /\ watch.pc = "opened" => (watch.opens = 1 /\ watch.handle = getEtcdClient)
  /\ KeyCalls # <<>> => watch.calls[1][1] = "EtcdWatchCreated"

C22_Witness ==
  /\ watch.pc = "done" /\ watch.handle = 1
  /\ Len(watch.calls) = 3 /\ Len(KeyCalls) = 2
  /\ watch.calls[1] = <<"EtcdWatchCreated", WatchKey>>

\* C23: whenever a call of Watch or of WaitForConnection is under way or
\* over, the current-client slot holds a handle: neither calls a method
\* through a missing handle, also on an object constructed without endpoints.
C23_HandleInstalledWhenUsed ==
  (watch.pc # "idle" \/ wfc.pc # "idle") =>
    (getEtcdClient # Nil /\ watch.pc # "panic" /\ wfc.pc # "panic")

\* A step in which EtcdClientCreated of listener l is called: by the
\* goroutine AddListener has started, or by notifyListeners.
Notifies(l) ==
  \/ gor'[l].spawned < gor[l].spawned
  \/ \E t \in Threads :
       th[t].pc = "notify" /\ th'[t].pc = "callback" /\ th'[t].listener = l

\* C24: a listener that is not registered, RemoveListener having returned
\* and no AddListener having added it again, gets no call of
\* EtcdClientCreated.
C24_NoNotificationAfterRemove ==
  [][\A l \in Listeners : (l \notin listeners /\ l \notin listeners') => ~Notifies(l)]_vars

\* How often handle h has been closed, by load and by Close together.
TimesClosed(h) == clients[h].closedByLoad + clients[h].closedByClose

\* C25: no handle is closed more than once, and a handle that Close has
\* closed is no longer the current client.
C25_ClosedAtMostOnce ==
  \A h \in 1..Len(clients) :
    /\ TimesClosed(h) <= 1
    /\ clients[h].closedByClose > 0 => getEtcdClient # h

\* C26: when the concurrent loads have all returned, every handle created
\* is the current client or has been closed, and exactly one handle, the
\* current client, is open.
C26_NoHandleLeaked ==
  (\A t \in Threads : th[t].pc \in {"returned", "idle"}) =>
    /\ \A h \in 1..Len(clients) : h = getEtcdClient \/ TimesClosed(h) >= 1
    /\ {h \in 1..Len(clients) : TimesClosed(h) = 0} = {getEtcdClient}
=============================================================================
